---- MODULE Spec2Model ----
(***************************************************************************)
(* Model of SafeRice-Server (src/server.js): an express application with   *)
(* signup / login / logout / profile routes over one shared mysql2         *)
(* connection, guarded by a JWT bearer-token middleware.                   *)
(*                                                                         *)
(* A request occupies a slot.  Every action is the code one request runs   *)
(* between two awaits.  The single connection `db` executes the queries    *)
(* it is handed in the order they were handed over (`queue`), so a step    *)
(* that resumes from `await db.query(...)` is enabled only for the slot at *)
(* the head of the queue; that step executes the statement and runs the    *)
(* handler up to its next await or its response.                           *)
(***************************************************************************)
EXTENDS Integers, Sequences, FiniteSets, TLC

(* ------------------------------ bounds -------------------------------- *)
\* number of requests that can be in flight at once
MaxReq == 2
\* rows the user_log table may hold before login stops being offered
MaxLogs == 2
\* rows the users table may hold before signup stops being offered
MaxUsers == 2
\* distance between two clock samples, in milliseconds
TickMs == 500

(* ------------------------- program constants -------------------------- *)
\* Math.floor((logoutTime - login_time) / 1000): milliseconds per second
MsPerSec == 1000
\* jwt.sign(..., { expiresIn: '1h' }): seconds
ExpiresIn == 3600

Slots == 1..MaxReq

\* JavaScript undefined (of a header, a token, a local) and SQL NULL
Undefined == <<>>
NULL == <<>>
\* a body field that is absent or the empty string: !field holds
NoText == ""
\* an absent or empty email (emails are held as lists of characters)
NoEmail == <<>>

\* process.env.JWT_SECRET
JWT_SECRET == "secret"

VARIABLES
    db,        \* the connection handle: "undefined" | "connected" | "closed"
    running,   \* FALSE once process.exit(1) was called
    users,     \* table users: sequence of rows, id = position
    user_log,  \* table user_log: sequence of rows, id = position
    clock,     \* wall clock, milliseconds
    reqs,      \* request slots: the requests in flight and the last responses
    queue,     \* slots whose statement waits on the connection, oldest first
    issued     \* tokens handed to clients in login responses

vars == <<db, running, users, user_log, clock, reqs, queue, issued>>

(* ------------------------------ helpers ------------------------------- *)
\* Math.floor(a / b) for b > 0, also for negative a
Floor(a, b) == a \div b

Idle == [route |-> "none", pc |-> "idle", header |-> Undefined,
         body |-> Undefined, user |-> Undefined, vars |-> Undefined,
         res |-> Undefined]

\* res.status(s).json(j): the request is answered; the slot keeps what the
\* client sent and what it got back, the handler's locals are gone
Respond(r, s, j) ==
    reqs' = [reqs EXCEPT ![r].pc = "done", ![r].user = Undefined,
                         ![r].vars = Undefined,
                         ![r].res = [status |-> s, json |-> j]]

\* the handler of slot r goes on to its next await with locals v
Goto(r, p, v) == reqs' = [reqs EXCEPT ![r].pc = p, ![r].vars = v]

InFlight(r) == reqs[r].pc \notin {"idle", "done"}

\* await db.query(...) resumes for the oldest statement handed over
Resumes(r, p) == /\ running
                 /\ reqs[r].pc = p
                 /\ queue # <<>>
                 /\ Head(queue) = r

\* the statement was executed, or the connection rejected it
QueryOk == db = "connected"

(* ----------------------------- bcryptjs ------------------------------- *)
Salts == {"s1", "s2"}

\* bcrypt.hash(password, 10) with the salt it drew
bcrypt_hash(password, salt) == [salt |-> salt, digest |-> <<salt, password>>]

\* bcrypt.compare(password, hash): re-hash with the stored salt
bcrypt_compare(password, hash) == bcrypt_hash(password, hash.salt) = hash

(* --------------------------- jsonwebtoken ----------------------------- *)
NowSec(now) == Floor(now, MsPerSec)

HMAC(payload, key) == <<payload, key>>

\* a slip: the payload carries an id no row of users has
jwt_signWrongId(id, username, key, now) ==
    LET payload == [id |-> 0, username |-> username, iat |-> NowSec(now),
                    exp |-> NowSec(now) + ExpiresIn]
    IN  <<"HS256", payload, HMAC(payload, key)>>

\* jwt.sign({id, username}, secret, {expiresIn: '1h'})
jwt_sign(id, username, key, now) ==
    LET payload == [id |-> id, username |-> username, iat |-> NowSec(now),
                    exp |-> NowSec(now) + ExpiresIn]
    IN  <<"HS256", payload, HMAC(payload, key)>>

\* a slip: the token is decoded, its signature is not compared
jwt_verifyNoSignature(token, key, now) ==
    IF Len(token) # 3 THEN [err |-> "JsonWebTokenError", user |-> Undefined]
    ELSE IF NowSec(now) >= token[2].exp
         THEN [err |-> "TokenExpiredError", user |-> Undefined]
    ELSE [err |-> "", user |-> token[2]]

\* a slip: verify is given clockTolerance: 1, so a token is still taken in
\* the second it expires
jwt_verifyLateExpiry(token, key, now) ==
    IF Len(token) # 3 THEN [err |-> "JsonWebTokenError", user |-> Undefined]
    ELSE IF token[3] # HMAC(token[2], key)
         THEN [err |-> "JsonWebTokenError", user |-> Undefined]
    ELSE IF NowSec(now) > token[2].exp
         THEN [err |-> "TokenExpiredError", user |-> Undefined]
    ELSE [err |-> "", user |-> token[2]]

\* jwt.verify(token, secret, cb): err for a malformed token, a signature
\* that does not match, or an expired token (now >= exp, in seconds)
jwt_verify(token, key, now) ==
    IF Len(token) # 3 THEN [err |-> "JsonWebTokenError", user |-> Undefined]
    ELSE IF token[3] # HMAC(token[2], key)
         THEN [err |-> "JsonWebTokenError", user |-> Undefined]
    ELSE IF NowSec(now) >= token[2].exp
         THEN [err |-> "TokenExpiredError", user |-> Undefined]
    ELSE [err |-> "", user |-> token[2]]

(* ------------------------------ tables -------------------------------- *)
UserIds == DOMAIN users

\* a slip: AND where the statement has OR
SelectUsersByNameAndEmail(username, email) ==
    {i \in DOMAIN users :
        users[i].username = username /\ users[i].email = email}

\* SELECT * FROM users WHERE username = ? OR email = ?
SelectUsersByNameOrEmail(username, email) ==
    {i \in UserIds : users[i].username = username \/ users[i].email = email}

\* SELECT * FROM users WHERE username = ?
SelectUsersByName(username) == {i \in UserIds : users[i].username = username}

\* INSERT INTO users (first_name, last_name, username, email, password)
InsertUser(tbl, b, hashedPassword) ==
    Append(tbl, [first_name |-> b.firstName, last_name |-> b.lastName,
                 username |-> b.username, email |-> b.email,
                 password |-> hashedPassword])

(* ------------------------- connectDatabase ---------------------------- *)
\* db = await mysql.createConnection(dbConfig) succeeded
ConnectDatabaseOk ==
    /\ running /\ db = "undefined"
    /\ db' = "connected"
    /\ UNCHANGED <<running, users, user_log, clock, reqs, queue, issued>>

\* createConnection rejected: process.exit(1)
ConnectDatabaseFail ==
    /\ running /\ db = "undefined"
    /\ running' = FALSE
    /\ UNCHANGED <<db, users, user_log, clock, reqs, queue, issued>>

\* the server closed or lost the established connection: every statement
\* handed to it from now on is rejected
ConnectionLost ==
    /\ running /\ db = "connected"
    /\ db' = "closed"
    /\ UNCHANGED <<running, users, user_log, clock, reqs, queue, issued>>

(* ------------------------- request arrival ---------------------------- *)
\* express accepted a request for `route`; it takes the first free slot
\* (slots are interchangeable)
Receive(r, route, header, body) ==
    /\ running
    /\ ~InFlight(r)
    /\ \A q \in Slots : q < r => InFlight(q)
    /\ reqs' = [reqs EXCEPT ![r] = [route |-> route, pc |-> "recv",
                                    header |-> header, body |-> body,
                                    user |-> Undefined, vars |-> Undefined,
                                    res |-> Undefined]]
    /\ UNCHANGED <<db, running, users, user_log, clock, queue, issued>>

\* db.query(...) is called: a TypeError when db is still undefined,
\* otherwise the statement is handed to the connection
CallQuery(r, p, v) ==
    IF db = "undefined"
    THEN /\ Respond(r, 500, [error |-> "TypeError"])
         /\ UNCHANGED queue
    ELSE /\ Goto(r, p, v)
         /\ queue' = Append(queue, r)

(* ------------------------------ /signup ------------------------------- *)
SignupMissing(b) ==
    \/ b.firstName = NoText \/ b.lastName = NoText
    \/ b.username = NoText \/ b.email = NoEmail
    \/ b.password = NoText \/ b.confirmPassword = NoText

\* lines 49-60: validation, then the existence check is sent
SignupBegin(r) ==
    /\ running
    /\ reqs[r].pc = "recv" /\ reqs[r].route = "signup"
    /\ LET b == reqs[r].body IN
       IF SignupMissing(b)
       THEN /\ Respond(r, 400, [message |-> "All fields are required"])
            /\ UNCHANGED queue
       ELSE IF b.password # b.confirmPassword
       THEN /\ Respond(r, 400, [message |-> "Passwords do not match"])
            /\ UNCHANGED queue
       ELSE CallQuery(r, "select", Undefined)
    /\ UNCHANGED <<db, running, users, user_log, clock, issued>>

\* lines 60-66: the SELECT returns; conflict, or bcrypt.hash is started
SignupSelected(r) ==
    /\ Resumes(r, "select") /\ reqs[r].route = "signup"
    /\ queue' = Tail(queue)
    /\ LET b == reqs[r].body IN
       IF ~QueryOk THEN Respond(r, 500, [error |-> "query failed"])
       ELSE IF SelectUsersByNameOrEmail(b.username, b.email) # {}
       THEN Respond(r, 400,
              [message |-> "User already exists with this username or email"])
       ELSE Goto(r, "hash", Undefined)
    /\ UNCHANGED <<db, running, users, user_log, clock, issued>>

\* lines 66-68: bcrypt.hash resolves and the INSERT is sent
SignupHashed(r, salt) ==
    /\ running
    /\ reqs[r].pc = "hash" /\ reqs[r].route = "signup"
    /\ CallQuery(r, "insert",
                 [hashedPassword |-> bcrypt_hash(reqs[r].body.password, salt)])
    /\ UNCHANGED <<db, running, users, user_log, clock, issued>>

\* lines 68-73: the INSERT returns
SignupInserted(r) ==
    /\ Resumes(r, "insert") /\ reqs[r].route = "signup"
    /\ queue' = Tail(queue)
    /\ IF ~QueryOk
       THEN /\ Respond(r, 500, [error |-> "query failed"])
            /\ UNCHANGED users
       ELSE /\ users' = InsertUser(users, reqs[r].body,
                                   reqs[r].vars.hashedPassword)
            /\ Respond(r, 201, [success |-> TRUE,
                                message |-> "Signup successful"])
    /\ UNCHANGED <<db, running, user_log, clock, issued>>

(* ------------------------------- /login ------------------------------- *)
\* lines 80-83: the lookup by username is sent
LoginBegin(r) ==
    /\ running
    /\ reqs[r].pc = "recv" /\ reqs[r].route = "login"
    /\ CallQuery(r, "select", Undefined)
    /\ UNCHANGED <<db, running, users, user_log, clock, issued>>

\* line 85: the answer when no user has the username
LoginNoUserJson == [message |-> "Invalid username or password"]

\* a slip: the answer tells which part was wrong
LoginBadPasswordJsonLeaky == [message |-> "Invalid password"]

\* line 90: the answer when the password does not match
LoginBadPasswordJson == [message |-> "Invalid username or password"]

\* lines 83-89: the SELECT returns; no row, or bcrypt.compare is started
\* on results[0] (the statement has no ORDER BY: any matching row)
LoginSelected(r) ==
    /\ Resumes(r, "select") /\ reqs[r].route = "login"
    /\ queue' = Tail(queue)
    /\ LET results == SelectUsersByName(reqs[r].body.username) IN
       IF ~QueryOk THEN Respond(r, 500, [error |-> "query failed"])
       ELSE IF results = {}
       THEN Respond(r, 400, LoginNoUserJson)
       ELSE \E i \in results :
              Goto(r, "compare", [user |-> [id |-> i,
                                            username |-> users[i].username,
                                            password |-> users[i].password]])
    /\ UNCHANGED <<db, running, users, user_log, clock, issued>>

\* lines 89-95: bcrypt.compare resolves; mismatch, or the token is signed,
\* loginTime is read and the INSERT is sent
LoginCompared(r) ==
    /\ running
    /\ reqs[r].pc = "compare" /\ reqs[r].route = "login"
    /\ LET user == reqs[r].vars.user IN
       IF ~bcrypt_compare(reqs[r].body.password, user.password)
       THEN /\ Respond(r, 400, LoginBadPasswordJson)
            /\ UNCHANGED queue
       ELSE CallQuery(r, "insert",
                [user |-> user,
                 token |-> jwt_sign(user.id, user.username, JWT_SECRET, clock),
                 loginTime |-> clock])
    /\ UNCHANGED <<db, running, users, user_log, clock, issued>>

\* a slip: the user's OPEN row is overwritten instead of a row being added
InsertLogUpsert(tbl, userId, loginTime) ==
    IF \E i \in DOMAIN tbl : tbl[i].user_id = userId /\ tbl[i].logout_time = NULL
    THEN [i \in DOMAIN tbl |->
            IF tbl[i].user_id = userId /\ tbl[i].logout_time = NULL
            THEN [tbl[i] EXCEPT !.login_time = loginTime]
            ELSE tbl[i]]
    ELSE Append(tbl, [user_id |-> userId, login_time |-> loginTime,
                      logout_time |-> NULL, session_duration |-> NULL])

\* INSERT INTO user_log (user_id, login_time) VALUES (?, ?)
InsertLog(tbl, userId, loginTime) ==
    Append(tbl, [user_id |-> userId, login_time |-> loginTime,
                 logout_time |-> NULL, session_duration |-> NULL])

\* lines 95-97: the INSERT returns and the token is sent to the client
LoginInserted(r) ==
    /\ Resumes(r, "insert") /\ reqs[r].route = "login"
    /\ queue' = Tail(queue)
    /\ LET v == reqs[r].vars IN
       IF ~QueryOk
       THEN /\ Respond(r, 500, [error |-> "query failed"])
            /\ UNCHANGED <<user_log, issued>>
       ELSE /\ user_log' = InsertLog(user_log, v.user.id, v.loginTime)
            /\ Respond(r, 200, [success |-> TRUE, token |-> v.token,
                                use_id |-> v.user.id])
            /\ issued' = issued \cup {v.token}
    /\ UNCHANGED <<db, running, users, clock>>

(* -------------------------- authenticateToken ------------------------- *)
\* req.header('Authorization')?.split(' ')[1]; the header is held as the
\* list of its space-separated parts
HeaderToken(header) == IF Len(header) >= 2 THEN header[2] ELSE Undefined

\* a slip: a token is refused once its user has no open session
authenticateTokenOpenSession(header, now) ==
    LET token == HeaderToken(header) IN
    IF token = Undefined
    THEN [next |-> FALSE, status |-> 403,
          json |-> [message |-> "Access Denied"], user |-> Undefined]
    ELSE LET v == jwt_verify(token, JWT_SECRET, now) IN
         IF v.err # ""
            \/ ~\E i \in DOMAIN user_log :
                  /\ user_log[i].user_id = v.user.id
                  /\ user_log[i].logout_time = NULL
         THEN [next |-> FALSE, status |-> 403,
               json |-> [message |-> "Invalid token"], user |-> Undefined]
         ELSE [next |-> TRUE, status |-> 0, json |-> Undefined,
               user |-> v.user]

\* lines 36-45: the verdict of the middleware on a header at time `now`
authenticateToken(header, now) ==
    LET token == HeaderToken(header) IN
    IF token = Undefined
    THEN [next |-> FALSE, status |-> 403,
          json |-> [message |-> "Access Denied"], user |-> Undefined]
    ELSE LET v == jwt_verify(token, JWT_SECRET, now) IN
         IF v.err # ""
         THEN [next |-> FALSE, status |-> 403,
               json |-> [message |-> "Invalid token"], user |-> Undefined]
         ELSE [next |-> TRUE, status |-> 0, json |-> Undefined,
               user |-> v.user]

Protected == {"logout", "getUsername", "getProfile", "updateProfile"}

\* lines 38 and 41: the middleware answers 403 and next() is not called
AuthReject(r) ==
    /\ running
    /\ reqs[r].pc = "recv" /\ reqs[r].route \in Protected
    /\ LET a == authenticateToken(reqs[r].header, clock) IN
         /\ ~a.next
         /\ Respond(r, a.status, a.json)
    /\ UNCHANGED <<db, running, users, user_log, clock, queue, issued>>

\* lines 42-43: req.user = user; next()
Authenticated(r, route) ==
    /\ running
    /\ reqs[r].pc = "recv" /\ reqs[r].route = route
    /\ authenticateToken(reqs[r].header, clock).next

ReqUser(r) == authenticateToken(reqs[r].header, clock).user

(* ------------------------------ /logout ------------------------------- *)
\* ... WHERE user_id = ? AND logout_time IS NULL
OpenLogs(tbl, userId) ==
    {i \in DOMAIN tbl : tbl[i].user_id = userId /\ tbl[i].logout_time = NULL}

\* a slip: the statement without "logout_time IS NULL"
SelectLatestAny(tbl, userId) ==
    {i \in DOMAIN tbl :
        /\ tbl[i].user_id = userId
        /\ \A j \in DOMAIN tbl :
              tbl[j].user_id = userId => tbl[j].login_time <= tbl[i].login_time}

\* SELECT ... ORDER BY login_time DESC LIMIT 1: the rows the statement may
\* return (rows with equal login_time are in no defined order)
SelectLatestOpen(tbl, userId) ==
    {i \in OpenLogs(tbl, userId) :
        \A j \in OpenLogs(tbl, userId) : tbl[j].login_time <= tbl[i].login_time}

\* a slip: the statement without "user_id = ?"
UpdateLogoutAllUsers(tbl, logoutTime, sessionDuration, userId) ==
    [i \in DOMAIN tbl |->
        IF tbl[i].logout_time = NULL
        THEN [tbl[i] EXCEPT !.logout_time = <<logoutTime>>,
                            !.session_duration = <<sessionDuration>>]
        ELSE tbl[i]]

\* a slip: the statement without "logout_time IS NULL"
UpdateLogoutAnyRow(tbl, logoutTime, sessionDuration, userId) ==
    [i \in DOMAIN tbl |->
        IF tbl[i].user_id = userId
        THEN [tbl[i] EXCEPT !.logout_time = <<logoutTime>>,
                            !.session_duration = <<sessionDuration>>]
        ELSE tbl[i]]

\* UPDATE user_log SET logout_time = ?, session_duration = ?
\*   WHERE user_id = ? AND logout_time IS NULL
UpdateLogout(tbl, logoutTime, sessionDuration, userId) ==
    [i \in DOMAIN tbl |->
        IF i \in OpenLogs(tbl, userId)
        THEN [tbl[i] EXCEPT !.logout_time = <<logoutTime>>,
                            !.session_duration = <<sessionDuration>>]
        ELSE tbl[i]]

\* lines 104-108: userId and logoutTime are read and the SELECT is sent
LogoutBegin(r) ==
    /\ Authenticated(r, "logout")
    /\ LET u == ReqUser(r) IN
       IF db = "undefined"
       THEN /\ Respond(r, 500, [error |-> "TypeError"])
            /\ UNCHANGED queue
       ELSE /\ reqs' = [reqs EXCEPT ![r].pc = "select", ![r].user = u,
                          ![r].vars = [userId |-> u.id, logoutTime |-> clock]]
            /\ queue' = Append(queue, r)
    /\ UNCHANGED <<db, running, users, user_log, clock, issued>>

\* lines 108-117: the SELECT returns; no open row, or the duration is
\* computed from the returned row and the UPDATE is sent
LogoutSelected(r) ==
    /\ Resumes(r, "select") /\ reqs[r].route = "logout"
    /\ LET v == reqs[r].vars
           results == SelectLatestOpen(user_log, v.userId) IN
       IF ~QueryOk
       THEN /\ Respond(r, 500, [error |-> "query failed"])
            /\ queue' = Tail(queue)
       ELSE IF results = {}
       THEN /\ Respond(r, 400, [message |-> "No active session found"])
            /\ queue' = Tail(queue)
       ELSE \E i \in results :
              /\ Goto(r, "update",
                   [userId |-> v.userId, logoutTime |-> v.logoutTime,
                    sessionDuration |->
                      Floor(v.logoutTime - user_log[i].login_time, MsPerSec)])
              /\ queue' = Append(Tail(queue), r)
    /\ UNCHANGED <<db, running, users, user_log, clock, issued>>

\* a change: the handler looks at what the UPDATE matched and refuses a
\* logout that closed no row
LogoutUpdatedChecked(r) ==
    /\ Resumes(r, "update") /\ reqs[r].route = "logout"
    /\ queue' = Tail(queue)
    /\ LET v == reqs[r].vars IN
       IF ~QueryOk
       THEN /\ Respond(r, 500, [error |-> "query failed"])
            /\ UNCHANGED user_log
       ELSE /\ user_log' = UpdateLogout(user_log, v.logoutTime,
                                        v.sessionDuration, v.userId)
            /\ IF OpenLogs(user_log, v.userId) = {}
               THEN Respond(r, 400, [message |-> "No active session found"])
               ELSE Respond(r, 200, [success |-> TRUE])
    /\ UNCHANGED <<db, running, users, clock, issued>>

\* lines 117-122: the UPDATE returns
LogoutUpdated(r) ==
    /\ Resumes(r, "update") /\ reqs[r].route = "logout"
    /\ queue' = Tail(queue)
    /\ LET v == reqs[r].vars IN
       IF ~QueryOk
       THEN /\ Respond(r, 500, [error |-> "query failed"])
            /\ UNCHANGED user_log
       ELSE /\ user_log' = UpdateLogout(user_log, v.logoutTime,
                                        v.sessionDuration, v.userId)
            /\ Respond(r, 200, [success |-> TRUE])
    /\ UNCHANGED <<db, running, users, clock, issued>>

(* ---------------------- /getUsername, /getProfile --------------------- *)
\* lines 128-130 and 139-141: the lookup by req.user.id is sent
GetBegin(r, route) ==
    /\ Authenticated(r, route)
    /\ LET u == ReqUser(r) IN
       IF db = "undefined"
       THEN /\ Respond(r, 500, [error |-> "TypeError"])
            /\ UNCHANGED queue
       ELSE /\ reqs' = [reqs EXCEPT ![r].pc = "select", ![r].user = u]
            /\ queue' = Append(queue, r)
    /\ UNCHANGED <<db, running, users, user_log, clock, issued>>

\* SELECT ... FROM users WHERE id = ?
SelectUserById(id) == {i \in UserIds : i = id}

\* lines 130-132: SELECT username FROM users WHERE id = ? returns
GetUsernameSelected(r) ==
    /\ Resumes(r, "select") /\ reqs[r].route = "getUsername"
    /\ queue' = Tail(queue)
    /\ LET results == SelectUserById(reqs[r].user.id) IN
       IF ~QueryOk THEN Respond(r, 500, [error |-> "query failed"])
       ELSE IF results = {}
       THEN Respond(r, 404, [message |-> "User not found"])
       ELSE \E i \in results :
              Respond(r, 200, [username |-> users[i].username])
    /\ UNCHANGED <<db, running, users, user_log, clock, issued>>

\* lines 141-143: SELECT username, email, first_name, last_name returns
GetProfileSelected(r) ==
    /\ Resumes(r, "select") /\ reqs[r].route = "getProfile"
    /\ queue' = Tail(queue)
    /\ LET results == SelectUserById(reqs[r].user.id) IN
       IF ~QueryOk THEN Respond(r, 500, [error |-> "query failed"])
       ELSE IF results = {}
       THEN Respond(r, 404, [message |-> "User not found"])
       ELSE \E i \in results :
              Respond(r, 200, [username |-> users[i].username,
                               email |-> users[i].email,
                               first_name |-> users[i].first_name,
                               last_name |-> users[i].last_name])
    /\ UNCHANGED <<db, running, users, user_log, clock, issued>>

(* --------------------------- /updateProfile --------------------------- *)
Space == " "

\* /\S+@\S+\.\S+/.test(email), unanchored: somewhere a non-space, "@", one
\* or more non-spaces, ".", a non-space
EmailRegexTest(e) ==
    \E i \in 1..Len(e) : \E j \in 1..Len(e) :
        /\ e[i] = "@" /\ e[j] = "."
        /\ i > 1 /\ e[i - 1] # Space
        /\ j > i + 1
        /\ \A k \in (i + 1)..(j - 1) : e[k] # Space
        /\ j < Len(e) /\ e[j + 1] # Space

\* lines 151-158: the email shape is tested, then the uniqueness check is sent
UpdateProfileBegin(r) ==
    /\ Authenticated(r, "updateProfile")
    /\ LET u == ReqUser(r) IN
       IF ~EmailRegexTest(reqs[r].body.email)
       THEN /\ Respond(r, 400, [message |-> "Invalid email format"])
            /\ UNCHANGED queue
       ELSE IF db = "undefined"
       THEN /\ Respond(r, 500, [message |-> "Server error",
                                error |-> "TypeError"])
            /\ UNCHANGED queue
       ELSE /\ reqs' = [reqs EXCEPT ![r].pc = "select", ![r].user = u]
            /\ queue' = Append(queue, r)
    /\ UNCHANGED <<db, running, users, user_log, clock, issued>>

\* SELECT id FROM users WHERE (username = ? OR email = ?) AND id != ?
SelectOtherUsers(username, email, userId) ==
    {i \in SelectUsersByNameOrEmail(username, email) : i # userId}

\* lines 158-167: the uniqueness check returns; conflict, or the UPDATE is sent
UpdateProfileSelected(r) ==
    /\ Resumes(r, "select") /\ reqs[r].route = "updateProfile"
    /\ LET b == reqs[r].body IN
       IF ~QueryOk
       THEN /\ Respond(r, 500, [message |-> "Server error",
                                error |-> "query failed"])
            /\ queue' = Tail(queue)
       ELSE IF SelectOtherUsers(b.username, b.email, reqs[r].user.id) # {}
       THEN /\ Respond(r, 400,
                 [message |-> "Username or email already in use"])
            /\ queue' = Tail(queue)
       ELSE /\ Goto(r, "update", Undefined)
            /\ queue' = Append(Tail(queue), r)
    /\ UNCHANGED <<db, running, users, user_log, clock, issued>>

\* UPDATE users SET first_name = ?, last_name = ?, username = ?, email = ?
\*   WHERE id = ?
UpdateUser(tbl, b, userId) ==
    [i \in DOMAIN tbl |->
        IF i = userId
        THEN [tbl[i] EXCEPT !.first_name = b.firstName,
                            !.last_name = b.lastName,
                            !.username = b.username, !.email = b.email]
        ELSE tbl[i]]

\* a slip: the count read from a field the result does not have
AffectedRowsMisread(tbl, userId) == 0

\* result.affectedRows: mysql2 connects with the FOUND_ROWS flag, so the
\* rows the WHERE clause matched are counted, changed or not
AffectedRows(tbl, userId) == Cardinality({i \in DOMAIN tbl : i = userId})

\* lines 167-176: the UPDATE returns
UpdateProfileUpdated(r) ==
    /\ Resumes(r, "update") /\ reqs[r].route = "updateProfile"
    /\ queue' = Tail(queue)
    /\ LET b == reqs[r].body
           userId == reqs[r].user.id IN
       IF ~QueryOk
       THEN /\ Respond(r, 500, [message |-> "Server error",
                                error |-> "query failed"])
            /\ UNCHANGED users
       ELSE /\ users' = UpdateUser(users, b, userId)
            /\ IF AffectedRows(users, userId) = 0
               THEN Respond(r, 404,
                      [message |-> "User not found or no changes made"])
               ELSE Respond(r, 200,
                      [message |-> "Profile updated successfully"])
    /\ UNCHANGED <<db, running, user_log, clock, issued>>

(* ------------------------------- clock -------------------------------- *)
\* time passes between two steps (new Date(), jwt's Date.now())
Tick(S) ==
    /\ running
    /\ \E t \in S : t > clock /\ clock' = t
    /\ UNCHANGED <<db, running, users, user_log, reqs, queue, issued>>

(* ------------------------- requests clients send ---------------------- *)
EmailA == <<"a", "@", "x", ".", "c">>
EmailB == <<"b", "@", "x", ".", "c">>

SignupBody(u, e, p, c) ==
    [firstName |-> "Ann", lastName |-> "Lee", username |-> u, email |-> e,
     password |-> p, confirmPassword |-> c]

\* complete bodies with matching and with differing passwords, and one
\* body with a field missing
SignupBodies ==
    {SignupBody(u, e, "pw123", c) :
        u \in {"alee", "bob"}, e \in {EmailA, EmailB}, c \in {"pw123", "pw124"}}
    \cup {SignupBody(NoText, EmailA, "pw123", "pw123")}

InFlightOf(route) == {r \in Slots : InFlight(r) /\ reqs[r].route = route}

\* a client posts /signup (while the users table is below its bound)
ReceiveSignup(r) ==
    /\ Len(users) + Cardinality(InFlightOf("signup")) < MaxUsers
    /\ \E b \in SignupBodies : Receive(r, "signup", Undefined, b)

(* --------------------------- initial states --------------------------- *)
\* the process has started, connectDatabase() is pending, the tables are
\* empty and no request has arrived
Init ==
    /\ db = "undefined"
    /\ running = TRUE
    /\ users = <<>>
    /\ user_log = <<>>
    /\ clock = 0
    /\ reqs = [r \in Slots |-> Idle]
    /\ queue = <<>>
    /\ issued = {}

Connection == ConnectDatabaseOk \/ ConnectDatabaseFail \/ ConnectionLost

SignupSteps(r) ==
    \/ SignupBegin(r)
    \/ SignupSelected(r)
    \/ \E salt \in Salts : SignupHashed(r, salt)
    \/ SignupInserted(r)

(* ----- signup requests, overlapping at their awaits in any way -------- *)
NextSignup ==
    \/ Connection
    \/ \E r \in Slots : ReceiveSignup(r) \/ SignupSteps(r)

SpecSignup == Init /\ [][NextSignup]_vars

(* ----- signup requests, one after another ----------------------------- *)
NoneInFlight == \A r \in Slots : ~InFlight(r)

NextSignupSeq ==
    \/ Connection
    \/ \E r \in Slots : (NoneInFlight /\ ReceiveSignup(r)) \/ SignupSteps(r)

SpecSignupSeq == Init /\ [][NextSignupSeq]_vars

(* ----- login and logout of registered users --------------------------- *)
\* the users table after alee and bob have signed up
SeedUsers ==
    InsertUser(
        InsertUser(<<>>, SignupBody("alee", EmailA, "pw123", "pw123"),
                   bcrypt_hash("pw123", "s1")),
        SignupBody("bob", EmailB, "pw456", "pw456"),
        bcrypt_hash("pw456", "s2"))

\* the process has started against a database that holds these users
InitSeeded ==
    /\ db = "undefined"
    /\ running = TRUE
    /\ users = SeedUsers
    /\ user_log = <<>>
    /\ clock = 0
    /\ reqs = [r \in Slots |-> Idle]
    /\ queue = <<>>
    /\ issued = {}

LoginBody(u, p) == [username |-> u, password |-> p]

\* the right password, a wrong password, and a username nobody has
LoginBodies ==
    {LoginBody("alee", "pw123"),
     LoginBody("alee", "pw456"), LoginBody("carol", "pw123")}

\* a client posts /login (while the user_log table is below its bound)
ReceiveLogin(r, bodies) ==
    /\ Len(user_log) + Cardinality(InFlightOf("login")) < MaxLogs
    /\ \E b \in bodies : Receive(r, "login", Undefined, b)

Bearer(token) == <<"Bearer", token>>

\* a client sends a protected request with a token a login gave it
ReceiveWithToken(r, route, body) ==
    \E t \in issued : Receive(r, route, Bearer(t), body)

LoginSteps(r) ==
    LoginBegin(r) \/ LoginSelected(r) \/ LoginCompared(r) \/ LoginInserted(r)

LogoutSteps(r) == LogoutBegin(r) \/ LogoutSelected(r) \/ LogoutUpdated(r)

\* the start and two later instants, half a second and a second on
EarlyInstants == {0, TickMs, 2 * TickMs}

NextSession ==
    \/ Connection
    \/ Tick(EarlyInstants)
    \/ \E r \in Slots :
         \/ ReceiveLogin(r, LoginBodies)
         \/ ReceiveWithToken(r, "logout", Undefined)
         \/ LoginSteps(r)
         \/ LogoutSteps(r)

SpecSession == InitSeeded /\ [][NextSession]_vars

(* ----- the protected routes behind authenticateToken ------------------ *)
\* a token signed by someone who does not hold JWT_SECRET
ForgedToken ==
    LET payload == [id |-> 1, username |-> "alee", iat |-> 0,
                    exp |-> 2 * ExpiresIn]
    IN  <<"HS256", payload, HMAC(payload, "guess")>>

\* an issued token whose expiry was pushed back, its signature kept
Tampered(t) == <<t[1], [t[2] EXCEPT !.exp = @ + ExpiresIn], t[3]>>

\* no Authorization header, a header without a token, tokens that are not
\* JWTs, forged and tampered tokens, and the tokens logins handed out
Headers ==
    {Undefined, <<"Bearer">>, Bearer(<<"garbage">>), Bearer(ForgedToken)}
    \cup {Bearer(t) : t \in issued}
    \cup {Bearer(Tampered(t)) : t \in issued}

ProfileBody(f, l, u, e) ==
    [firstName |-> f, lastName |-> l, username |-> u, email |-> e]

\* an email without "@"
BadEmail == <<"a", "x", ".", "c">>

GateProfileBodies ==
    {ProfileBody("Ann", "Lee", "alee", EmailA),
     ProfileBody("Ann", "Lee", "alee", BadEmail)}

ReceiveProtected(r) ==
    \E h \in Headers :
        \/ \E route \in {"logout", "getUsername", "getProfile"} :
             Receive(r, route, h, Undefined)
        \/ \E b \in GateProfileBodies : Receive(r, "updateProfile", h, b)

GetSteps(r) ==
    \/ GetBegin(r, "getUsername")
    \/ GetBegin(r, "getProfile")
    \/ GetUsernameSelected(r)
    \/ GetProfileSelected(r)

UpdateProfileSteps(r) ==
    UpdateProfileBegin(r) \/ UpdateProfileSelected(r) \/ UpdateProfileUpdated(r)

\* the start and a moment later, and the instants around one token
\* lifetime after the start
TokenInstants ==
    {0, TickMs} \cup {ExpiresIn * MsPerSec + k * TickMs : k \in {0 - 1, 0, 1}}

\* requests arrive one after another, while time passes and tokens expire
NextGate ==
    \/ Connection
    \/ Tick(TokenInstants)
    \/ \E r \in Slots :
         \/ NoneInFlight /\ ReceiveLogin(r, {LoginBody("alee", "pw123")})
         \/ NoneInFlight /\ ReceiveProtected(r)
         \/ LoginSteps(r)
         \/ AuthReject(r)
         \/ LogoutSteps(r)
         \/ GetSteps(r)
         \/ UpdateProfileSteps(r)

SpecGate == InitSeeded /\ [][NextGate]_vars

(* ----- two registered users logging in and out ------------------------ *)
LateInstant == {2 * TickMs}

NextTwoUsers ==
    \/ ConnectDatabaseOk
    \/ ConnectDatabaseFail
    \/ Tick(LateInstant)
    \/ \E r \in Slots :
         \/ ReceiveLogin(r, {LoginBody("alee", "pw123"),
                             LoginBody("bob", "pw456")})
         \/ ReceiveWithToken(r, "logout", Undefined)
         \/ LoginSteps(r)
         \/ LogoutSteps(r)

SpecTwoUsers == InitSeeded /\ [][NextTwoUsers]_vars

(* ----- every route, one request after another, from an empty store ---- *)
\* an email with a space inside its local part
SpacedEmail == <<"a", " ", "b", "@", "x", ".", "c">>

ProfileSignupBodies ==
    {SignupBody("alee", EmailA, "pw123", "pw123"),
     SignupBody("bob", EmailB, "pw123", "pw123"),
     SignupBody("alee", EmailB, "pw123", "pw124")}

ProfileLoginBodies ==
    {LoginBody("alee", "pw123"), LoginBody("alee", "pw456"),
     LoginBody("bob", "pw123")}

\* a new username, a username another user may hold, and two emails the
\* format check is there for
ProfileBodies ==
    {ProfileBody("Ann", "Lee", "ann", EmailA),
     ProfileBody("Ann", "Lee", "bob", EmailA),
     ProfileBody("Ann", "Lee", "alee", BadEmail),
     ProfileBody("Ann", "Lee", "alee", SpacedEmail)}

\* a protected route is called without a header or with a token a login
\* returned
ReceiveProfile(r) ==
    \E h \in {Undefined} \cup {Bearer(t) : t \in issued} :
        \/ \E route \in {"logout", "getUsername", "getProfile"} :
             Receive(r, route, h, Undefined)
        \/ \E b \in ProfileBodies : Receive(r, "updateProfile", h, b)

\* a client posts /signup (while the users table is below its bound)
ReceiveProfileSignup(r) ==
    /\ Len(users) < MaxUsers
    /\ \E b \in ProfileSignupBodies : Receive(r, "signup", Undefined, b)

NextProfile ==
    \/ Connection
    \/ \E r \in Slots :
         \/ NoneInFlight /\ ReceiveProfileSignup(r)
         \/ NoneInFlight /\ ReceiveLogin(r, ProfileLoginBodies)
         \/ NoneInFlight /\ ReceiveProfile(r)
         \/ SignupSteps(r)
         \/ LoginSteps(r)
         \/ AuthReject(r)
         \/ LogoutSteps(r)
         \/ GetSteps(r)
         \/ UpdateProfileSteps(r)

SpecProfile == Init /\ [][NextProfile]_vars

(* ======================= properties of the routes ===================== *)
Answered(r, route) == reqs[r].pc = "done" /\ reqs[r].route = route

\* slot r, a request to `route` waiting at pc p, takes its step
Steps(r, route, p) ==
    reqs[r].route = route /\ reqs[r].pc = p /\ reqs'[r].pc # p

\* slot r answers in this step
Answers(r, route) ==
    reqs[r].route = route /\ InFlight(r) /\ reqs'[r].pc = "done"

IsOpen(row) == row.logout_time = NULL

IsClosed(row) == row.logout_time # NULL

\* the UPDATE of a logout of slot r returns and the logout answers 200
LogoutCloses(r) ==
    Steps(r, "logout", "update") /\ reqs'[r].res.status = 200

\* C1: a successful logout changes one session record only: of the OPEN
\* records the user has when the UPDATE runs, at most one is changed and
\* every other one is left exactly as it was (two logins and one logout
\* leave one record OPEN).
C1_LogoutChangesOneRecord ==
    [][\A r \in Slots : LogoutCloses(r) =>
         /\ Cardinality({i \in DOMAIN user_log :
                            user_log'[i] # user_log[i]}) <= 1
         /\ \A i \in DOMAIN user_log : \A j \in DOMAIN user_log :
              ( /\ i # j
                /\ IsOpen(user_log[i]) /\ IsOpen(user_log[j])
                /\ user_log[i].user_id = reqs[r].user.id
                /\ user_log[j].user_id = reqs[r].user.id )
              => IsOpen(user_log'[i]) \/ IsOpen(user_log'[j])]_vars

\* C2: no two distinct user records share a username and no two share an
\* email, whatever the interleaving of the requests.
C2_UniqueUsernameEmail ==
    \A i \in DOMAIN users : \A j \in DOMAIN users :
        i # j => /\ users[i].username # users[j].username
                 /\ users[i].email # users[j].email

\* C3: with signups running one after another, a signup with all fields,
\* matching passwords and a username and email no existing user has is
\* answered 201 and adds exactly one user (the one posted); a signup whose
\* username or email an existing user has is answered 400 Conflict and
\* adds none.
C3_SequentialSignup ==
    [][\A r \in Slots : (Answers(r, "signup") /\ db = "connected") =>
         LET b == reqs[r].body
             valid == /\ b.firstName # "" /\ b.lastName # ""
                      /\ b.username # "" /\ b.email # <<>>
                      /\ b.password # "" /\ b.password = b.confirmPassword
             taken == \E i \in DOMAIN users :
                         \/ users[i].username = b.username
                         \/ users[i].email = b.email
         IN  /\ (valid /\ ~taken) =>
                  /\ reqs'[r].res.status = 201
                  /\ Len(users') = Len(users) + 1
                  /\ SubSeq(users', 1, Len(users)) = users
                  /\ users'[Len(users')].username = b.username
                  /\ users'[Len(users')].email = b.email
             /\ (valid /\ taken) =>
                  /\ reqs'[r].res.status = 400
                  /\ reqs'[r].res.json.message =
                        "User already exists with this username or email"
                  /\ users' = users]_vars

\* a second signup was refused as a conflict after a first one had added
\* its user
C3_Witness ==
    \E r \in Slots :
        /\ Answered(r, "signup")
        /\ reqs[r].res.status = 400
        /\ reqs[r].res.json.message =
              "User already exists with this username or email"
        /\ Len(users) = 1
        /\ reqs[r].body.username = users[1].username
        /\ reqs[r].body.email # users[1].email

OpenOf(userId) ==
    {i \in DOMAIN user_log :
        IsOpen(user_log[i]) /\ user_log[i].user_id = userId}

ClosedRows(tbl) == {i \in DOMAIN tbl : IsClosed(tbl[i])}

\* C4: when the user has one OPEN record, a successful logout closes
\* exactly that record and leaves the user without an OPEN record; a
\* logout whose lookup runs while the user has no OPEN record (as right
\* after that logout, with the same token) answers 400 "No active session
\* found" and changes no session record.
C4_LoginLogoutThenNoSession ==
    [][\A r \in Slots :
         /\ (LogoutCloses(r) /\ Cardinality(OpenOf(reqs[r].user.id)) = 1) =>
               /\ \A i \in OpenOf(reqs[r].user.id) :
                     /\ IsClosed(user_log'[i])
                     /\ user_log'[i].login_time = user_log[i].login_time
                     /\ user_log'[i].user_id = user_log[i].user_id
               /\ ClosedRows(user_log') =
                     ClosedRows(user_log) \cup OpenOf(reqs[r].user.id)
               /\ \A i \in DOMAIN user_log' :
                     user_log'[i].user_id = reqs[r].user.id
                        => IsClosed(user_log'[i])
         /\ ( /\ Steps(r, "logout", "select")
              /\ db = "connected"
              /\ OpenOf(reqs[r].user.id) = {} ) =>
               /\ reqs'[r].pc = "done"
               /\ reqs'[r].res.status = 400
               /\ reqs'[r].res.json.message = "No active session found"
               /\ user_log' = user_log]_vars

\* one login, its logout, and a further logout that was refused
C4_Witness ==
    \E r \in Slots :
        /\ Answered(r, "logout")
        /\ reqs[r].res.status = 400
        /\ Len(user_log) = 1
        /\ IsClosed(user_log[1])

\* C5: a session record goes from OPEN to CLOSED and no further: a CLOSED
\* record is never changed again, an OPEN record either stays as it is or
\* gets its logout time and duration, and no record disappears.
C5_ClosedIsTerminal ==
    [][/\ Len(user_log') >= Len(user_log)
       /\ \A i \in DOMAIN user_log :
            /\ IsClosed(user_log[i]) => user_log'[i] = user_log[i]
            /\ IsOpen(user_log[i]) =>
                 \/ user_log'[i] = user_log[i]
                 \/ /\ IsClosed(user_log'[i])
                    /\ user_log'[i].session_duration # NULL
                    /\ user_log'[i].user_id = user_log[i].user_id
                    /\ user_log'[i].login_time = user_log[i].login_time]_vars

\* a record closed by one logout has stayed as it was through a later
\* logout of the same user
C5_Witness ==
    \E i \in DOMAIN user_log : \E j \in DOMAIN user_log :
        /\ IsClosed(user_log[i]) /\ IsClosed(user_log[j])
        /\ user_log[i].user_id = user_log[j].user_id
        /\ user_log[i].logout_time[1] < user_log[j].logout_time[1]

\* C6: every CLOSED record has duration = floor((its logout time - its
\* login time) / 1000), and that duration is not negative.
C6_DurationIsOwnElapsed ==
    \A i \in DOMAIN user_log :
        IsClosed(user_log[i]) =>
            /\ user_log[i].session_duration[1] =
                  (user_log[i].logout_time[1] - user_log[i].login_time)
                     \div MsPerSec
            /\ user_log[i].session_duration[1] >= 0

\* C7: a request to a protected route whose header carries no token, or a
\* token no login issued, or an expired one, is answered 403 by the
\* middleware: no statement is handed to the connection and no table, and
\* nothing else, changes.  A request is let through only with an issued,
\* unexpired token, and then req.user holds that token's claims.
C7_GateRejectsWithoutEffect ==
    [][\A r \in Slots :
         (reqs[r].route \in {"logout", "getUsername", "getProfile",
                             "updateProfile"}
          /\ reqs[r].pc = "recv" /\ reqs'[r].pc # "recv") =>
         LET h == reqs[r].header
             good == /\ Len(h) >= 2
                     /\ h[2] \in issued
                     /\ clock < h[2][2].exp * MsPerSec
         IN  /\ ~good =>
                  /\ reqs'[r].pc = "done"
                  /\ reqs'[r].res.status = 403
                  /\ UNCHANGED <<db, running, users, user_log, clock,
                                 queue, issued>>
                  /\ \A q \in Slots \ {r} : reqs'[q] = reqs[q]
             /\ good =>
                  /\ ~(reqs'[r].pc = "done" /\ reqs'[r].res.status = 403)
                  /\ reqs'[r].pc # "done" =>
                        /\ reqs'[r].user = h[2][2]
                        /\ queue' = Append(queue, r)]_vars

\* after a login had handed out a token, an updateProfile request with a
\* forged token was refused
C7_Witness ==
    \E r \in Slots :
        /\ Answered(r, "updateProfile")
        /\ reqs[r].header = Bearer(ForgedToken)
        /\ reqs[r].res.status = 403
        /\ reqs[r].res.json.message = "Invalid token"
        /\ issued # {}

\* C8: a login with a wrong password for an existing username gets the
\* very response (status and body) a login with an unknown username gets,
\* both 400; a login with the right password is answered 200 with a token.
C8_LoginFailuresAlike ==
    LET known(b) == \E i \in DOMAIN users : users[i].username = b.username
        right(b) == \E i \in DOMAIN users :
                       /\ users[i].username = b.username
                       /\ users[i].password.digest[2] = b.password
        told(r) == Answered(r, "login") /\ reqs[r].res.status # 500
    IN  /\ \A r \in Slots : told(r) =>
              IF right(reqs[r].body)
              THEN /\ reqs[r].res.status = 200
                   /\ reqs[r].res.json.token \in issued
              ELSE reqs[r].res.status = 400
        /\ \A r1 \in Slots : \A r2 \in Slots :
              ( /\ told(r1) /\ told(r2)
                /\ ~known(reqs[r1].body)
                /\ known(reqs[r2].body) /\ ~right(reqs[r2].body) )
              => reqs[r1].res = reqs[r2].res

\* one login with an unknown username and one with a wrong password have
\* both been answered
C8_Witness ==
    \E r1 \in Slots : \E r2 \in Slots :
        /\ Answered(r1, "login") /\ Answered(r2, "login")
        /\ reqs[r1].body = LoginBody("carol", "pw123")
        /\ reqs[r2].body = LoginBody("alee", "pw456")
        /\ reqs[r1].res.status = 400 /\ reqs[r2].res.status = 400

\* the user of token t has logged out since the token was issued and has
\* no OPEN record left
LoggedOutSince(t) ==
    /\ \E i \in DOMAIN user_log :
          /\ user_log[i].user_id = t[2].id
          /\ IsClosed(user_log[i])
          /\ user_log[i].logout_time[1] >= t[2].iat * MsPerSec
    /\ \A i \in DOMAIN user_log :
          user_log[i].user_id = t[2].id => IsClosed(user_log[i])

\* C9: a protected request that presents an issued, unexpired token passes
\* the middleware also after the token's user has logged out: logout does
\* not invalidate the token.
C9_TokenSurvivesLogout ==
    [][\A r \in Slots :
         ( /\ reqs[r].route \in Protected
           /\ reqs[r].pc = "recv" /\ reqs'[r].pc # "recv"
           /\ Len(reqs[r].header) >= 2
           /\ reqs[r].header[2] \in issued
           /\ clock < reqs[r].header[2][2].exp * MsPerSec
           /\ LoggedOutSince(reqs[r].header[2]) )
         => ~(reqs'[r].pc = "done" /\ reqs'[r].res.status = 403)]_vars

\* after the logout, getUsername with the same token was answered 200
C9_Witness ==
    \E r \in Slots :
        /\ Answered(r, "getUsername")
        /\ reqs[r].res.status = 200
        /\ Len(reqs[r].header) >= 2
        /\ reqs[r].header[2] \in issued
        /\ LoggedOutSince(reqs[r].header[2])

\* C10: the token a login signs at time t expires within the second before
\* t + 1 hour; a protected request that presents an issued token passes
\* the middleware at every instant before the token's expiry and is
\* answered 403 at every instant from its expiry on, so never after
\* t + 1 hour.
C10_TokenLifetime ==
    [][\A r \in Slots :
         /\ Steps(r, "login", "compare") /\ reqs'[r].pc = "insert" =>
              LET exp == reqs'[r].vars.token[2].exp * MsPerSec
                  t == reqs'[r].vars.loginTime
              IN  /\ t = clock
                  /\ exp <= t + ExpiresIn * MsPerSec
                  /\ exp > t + ExpiresIn * MsPerSec - MsPerSec
         /\ ( /\ reqs[r].route \in Protected
              /\ reqs[r].pc = "recv" /\ reqs'[r].pc # "recv"
              /\ Len(reqs[r].header) >= 2
              /\ reqs[r].header[2] \in issued ) =>
              ( (reqs'[r].pc = "done" /\ reqs'[r].res.status = 403)
                <=> clock >= reqs[r].header[2][2].exp * MsPerSec )]_vars

\* a token issued half a second into a second was refused exactly at its
\* encoded expiry
C10_Witness ==
    \E r \in Slots :
        /\ Answered(r, "getUsername")
        /\ reqs[r].res.status = 403
        /\ Len(reqs[r].header) >= 2
        /\ reqs[r].header[2] \in issued
        /\ clock = reqs[r].header[2][2].exp * MsPerSec
        /\ \E i \in DOMAIN user_log :
              user_log[i].login_time = TickMs

\* C12: a logout whose UPDATE returns from the connection answers 200
\* whether or not the UPDATE still found an OPEN record; so two logouts of
\* one user whose SELECTs both ran before either UPDATE both answer 200,
\* while a record is closed by at most one of them.
C12_OverlappingLogoutsBothSucceed ==
    [][\A r \in Slots :
         (Steps(r, "logout", "update") /\ db = "connected") =>
            /\ reqs'[r].pc = "done"
            /\ reqs'[r].res.status = 200
            /\ {i \in DOMAIN user_log : user_log'[i] # user_log[i]}
                  = OpenOf(reqs[r].user.id)]_vars

\* two logouts have answered 200 and the log holds the one record of the
\* one login
C12_Witness ==
    /\ Len(user_log) = 1
    /\ IsClosed(user_log[1])
    /\ \E r1 \in Slots : \E r2 \in Slots :
          /\ r1 # r2
          /\ Answered(r1, "logout") /\ Answered(r2, "logout")
          /\ reqs[r1].res.status = 200 /\ reqs[r2].res.status = 200

\* C13: a login that answers 200 with a token has, in that step, added
\* exactly one OPEN record for its user (login time as read when the token
\* was signed) and left every existing record as it was; a login that
\* answers anything else returns no token and leaves the log as it was;
\* nothing but a login's INSERT adds a record.
C13_LoginRecordsThenResponds ==
    [][/\ \A r \in Slots : Answers(r, "login") =>
            IF reqs'[r].res.status = 200
            THEN /\ reqs[r].pc = "insert"
                 /\ reqs'[r].res.json.token = reqs[r].vars.token
                 /\ issued' = issued \cup {reqs[r].vars.token}
                 /\ Len(user_log') = Len(user_log) + 1
                 /\ SubSeq(user_log', 1, Len(user_log)) = user_log
                 /\ user_log'[Len(user_log')] =
                       [user_id |-> reqs[r].vars.token[2].id,
                        login_time |-> reqs[r].vars.loginTime,
                        logout_time |-> <<>>, session_duration |-> <<>>]
                 /\ users[reqs[r].vars.token[2].id].username
                       = reqs[r].body.username
            ELSE /\ "token" \notin DOMAIN reqs'[r].res.json
                 /\ user_log' = user_log
                 /\ issued' = issued
       /\ Len(user_log') # Len(user_log) =>
            \E r \in Slots : Answers(r, "login") /\ reqs'[r].res.status = 200
      ]_vars

\* two logins without a logout have left two OPEN records of one user,
\* and a login with a wrong password was answered 400
C13_Witness ==
    /\ Len(user_log) = 2
    /\ IsOpen(user_log[1]) /\ IsOpen(user_log[2])
    /\ user_log[1].user_id = user_log[2].user_id
    /\ \E r \in Slots :
          /\ Answered(r, "login")
          /\ reqs[r].res.status = 400
          /\ reqs[r].body = LoginBody("alee", "pw456")

\* C14: no request is accepted and handled while the database connection
\* is not established: whenever a slot holds a request or a response, db
\* is set.
C14_NoRequestBeforeConnection ==
    \A r \in Slots : reqs[r].pc # "idle" => db # "undefined"

\* C16: a logout sent with the token of user u leaves every session record
\* of every other user as it was, adds and removes no record, and computes
\* its duration from an OPEN record of u.
C16_LogoutTouchesOwnRecordsOnly ==
    [][\A r \in Slots :
         (reqs[r].route = "logout" /\ InFlight(r) /\ reqs'[r] # reqs[r]) =>
         LET u == reqs[r].header[2][2].id IN
            /\ Len(user_log') = Len(user_log)
            /\ \A i \in DOMAIN user_log :
                  user_log[i].user_id # u => user_log'[i] = user_log[i]
            /\ (reqs[r].pc = "select" /\ reqs'[r].pc = "update") =>
                  \E i \in DOMAIN user_log :
                     /\ user_log[i].user_id = u
                     /\ IsOpen(user_log[i])
                     /\ reqs'[r].vars.sessionDuration =
                           (reqs[r].vars.logoutTime - user_log[i].login_time)
                              \div MsPerSec]_vars

\* one user's record was closed by a logout while the record of another
\* user, who had logged in before that logout, is still OPEN
C16_Witness ==
    \E i \in DOMAIN user_log : \E j \in DOMAIN user_log :
        /\ user_log[i].user_id # user_log[j].user_id
        /\ IsClosed(user_log[i]) /\ IsOpen(user_log[j])
        /\ user_log[j].login_time < user_log[i].logout_time[1]

\* C11: an /updateProfile request whose email is malformed (it is not, as a
\* whole, non-blanks, "@", non-blanks, ".", non-blanks) is answered at its
\* first step, with 400 once the gate let it through, and that step sends
\* no statement and leaves the users table as it was.
C11_MalformedEmailRejected ==
    [][\A r \in Slots :
         LET e == reqs[r].body.email
             whole == /\ \A k \in 1..Len(e) : e[k] # " "
                      /\ \E i \in 2..Len(e) : \E j \in (i + 2)..(Len(e) - 1) :
                            e[i] = "@" /\ e[j] = "."
         IN (Steps(r, "updateProfile", "recv") /\ ~whole) =>
               /\ reqs'[r].pc = "done"
               /\ reqs'[r].res.status \in {400, 403}
               /\ reqs[r].header \in {Bearer(t) : t \in issued} =>
                     reqs'[r].res.status = 400
               /\ queue' = queue
               /\ users' = users]_vars

\* C15: a step that answers 400, 403, 404 or 500 leaves the users and
\* user_log tables as they were, and the tables change only in the step in
\* which a signup, login, logout or updateProfile request, resuming from its
\* INSERT or UPDATE, answers 200 or 201; no other step of any request
\* writes.
C15_FailureLeavesTablesAlone ==
    [][/\ \A r \in Slots :
            (/\ InFlight(r) /\ reqs'[r].pc = "done"
             /\ reqs'[r].res.status \in {400, 403, 404, 500}) =>
                users' = users /\ user_log' = user_log
       /\ (users' # users \/ user_log' # user_log) =>
            \E r \in Slots :
               /\ reqs[r].route \in {"signup", "login", "logout",
                                     "updateProfile"}
               /\ reqs[r].pc \in {"insert", "update"}
               /\ reqs'[r].pc = "done"
               /\ reqs'[r].res.status \in {200, 201}]_vars

\* a profile update that would have renamed a signed-up user was answered
\* 500 after the connection was lost, and no user carries the new name
C15_Witness ==
    /\ db = "closed"
    /\ user_log # <<>>
    /\ \E r \in Slots :
          /\ Answered(r, "updateProfile")
          /\ reqs[r].res.status = 500
          /\ reqs[r].body.username = "ann"
          /\ reqs[r].header[2][2].id \in DOMAIN users
          /\ \A i \in DOMAIN users : users[i].username # "ann"

\* C17: whenever the gate lets a request through, the id in its token is
\* the id of a row of users; and a getUsername or getProfile request is
\* never answered 404: when it answers 200 it returns the username that row
\* holds now, whatever username the token carries.
C17_AcceptedTokenNamesAUser ==
    [][\A r \in Slots :
         /\ (/\ reqs[r].route \in Protected
             /\ reqs[r].pc = "recv" /\ reqs'[r].pc = "select") =>
               reqs[r].header[2][2].id \in DOMAIN users
         /\ (/\ reqs[r].route \in {"getUsername", "getProfile"}
             /\ InFlight(r) /\ reqs'[r].pc = "done") =>
               /\ reqs'[r].res.status # 404
               /\ reqs'[r].res.status = 200 =>
                    reqs'[r].res.json.username =
                       users[reqs[r].header[2][2].id].username]_vars

\* getUsername, called with a token that names "alee", was answered 200
\* with the username an updateProfile has given that user since
C17_Witness ==
    \E r \in Slots :
        /\ Answered(r, "getUsername")
        /\ reqs[r].res.status = 200
        /\ reqs[r].header[2][2].username = "alee"
        /\ reqs[r].res.json.username = "ann"

====
